---- MODULE Spec2Model ----
(***************************************************************************)
(* The publish loop of env_monitor: run_continuous of the broker variant   *)
(* (src/src/mqtt_client.py) and of the cloud variant                       *)
(* (src/src/pubsub_client.py), with the retry counter, the backoff sleeps, *)
(* the client life cycle and the delivery of KeyboardInterrupt.            *)
(***************************************************************************)
EXTENDS Integers, Sequences, FiniteSets, TLC

VARIABLES
    variant,          \* which program runs: "broker" or "cloud"
    pc,               \* the statement run_continuous is at
    reconnect_count,  \* the retry counter of run_continuous
    client,           \* the broker client object run_continuous holds
    generated,        \* number of samples get_env_monitoring_data has built
    data,             \* the sample publish_data holds, 0 outside the call
    handed,           \* number of the sample last given to the transport's publish
    publish_success,  \* what the last publish_data / publish_data_to_pubsub returned
    fails,            \* history: counted failures since the last success
    trace,            \* history: the last TraceLen loop events
    intr,             \* number of KeyboardInterrupts delivered
    intr_at,          \* statement the last KeyboardInterrupt was delivered at
    cause,            \* why run_continuous left its loop
    connack,          \* return code the broker gave the last connect
    diag,             \* level on_connect logged that return code at
    exit_code,        \* exit status of the process, -1 while it runs
    ack,              \* what is known of the delivery of the sample last handed
    sensors,          \* what the two sensor reads of one collection come to
    sample,           \* the mapping validate_data is called with
    result,           \* the mapping validate_data returned
    pstep             \* how far the collection of that sample has got

vars == <<variant, pc, reconnect_count, client, generated, data, handed,
          publish_success, fails, trace, intr, intr_at, cause, connack,
          diag, exit_code, ack, sensors, sample, result, pstep>>

\* the variables of one collection (get_env_monitoring_data, validate_data)
payload == <<sensors, sample, result, pstep>>

----------------------------------------------------------------------------
(* Program constants *)

max_reconnect_attempts == 10

reconnect_delay == 5

SAMPLE_INTERVAL == 60

(* Bounds of the model *)

TraceLen == 10

MaxCloudSamples == 12

MaxBrokerSamples == 4

MaxInterrupts == 2

MaxPriorWarnings == 2

----------------------------------------------------------------------------
(* Helpers *)

\* the model stops building samples at this number
MaxSamples == IF variant = "cloud" THEN MaxCloudSamples ELSE MaxBrokerSamples

Event(e, n) == [ev |-> e, n |-> n]

\* the history keeps the last TraceLen events
Log(t, e) ==
    LET s == Append(t, e)
    IN  IF Len(s) > TraceLen THEN Tail(s) ELSE s

Log2(t, e1, e2) == Log(Log(t, e1), e2)

\* mutants of wait_time: a constant delay, a doubling delay
wait_time_fixed(n) == reconnect_delay

wait_time_doubling(n) == reconnect_delay * 2 ^ (n - 1)

\* wait_time = reconnect_delay * reconnect_count
wait_time(n) == reconnect_delay * n

\* on_connect: the level the broker's return code is logged at; nothing else
on_connect(rc) == IF rc = 0 THEN "info" ELSE "error"

\* mqtt.Client(...) as setup_mqtt_client returns it: never connected, no
\* network thread, no loop_stop or disconnect called on it yet
setup_mqtt_client ==
    [connected |-> FALSE, loop_running |-> FALSE, stops |-> 0, disconnects |-> 0]

\* client.loop_stop()
loop_stop(c) == [c EXCEPT !.loop_running = FALSE, !.stops = @ + 1]

\* mutant of disconnect: the call is lost
disconnect_lost(c) == c

\* client.disconnect()
disconnect(c) == [c EXCEPT !.connected = FALSE, !.disconnects = @ + 1]

\* mutant of is_connected: the client always reports not connected
is_connected_never(c) == FALSE

\* client.is_connected()
is_connected(c) == c.connected

\* the return codes a broker answers a connect with
ConnackCodes == 0..5

----------------------------------------------------------------------------
\* the program before its mode function is called
ProgramStart ==
    /\ variant \in {"broker", "cloud"}
    /\ reconnect_count = 0
    /\ client = setup_mqtt_client
    /\ generated = 0
    /\ data = 0
    /\ handed = 0
    /\ publish_success = FALSE
    /\ fails = 0
    /\ trace = <<>>
    /\ intr = 0
    /\ intr_at = "none"
    /\ cause = "none"
    /\ connack = -1
    /\ diag = "none"
    /\ exit_code = -1
    /\ ack = "none"

\* no collection is looked at
PayloadIdle ==
    /\ sensors = [cpu |-> [out |-> "none", v |-> 0], metrics |-> "none"]
    /\ sample = [kind |-> "null"]
    /\ result = [kind |-> "null"]
    /\ pstep = "idle"

\* run_continuous is entered
Init ==
    /\ ProgramStart
    /\ pc = IF variant = "broker" THEN "loop_top" ELSE "make_publisher"
    /\ PayloadIdle

----------------------------------------------------------------------------
(* The process's exit status once run_continuous has returned: both        *)
(* handlers of the outer try swallow the exception, the function returns   *)
(* and the interpreter ends normally.                                      *)
ExitStatus == 0

\* mutant of get_env_monitoring_data: after a failed publish the sample of
\* that publish is returned again
cached_sample(n) == IF publish_success \/ n = 0 THEN n + 1 ELSE n

\* the number of the sample get_env_monitoring_data() returns when n samples
\* were built before: every call builds a new one
get_env_monitoring_data(n) == n + 1

\* data = get_env_monitoring_data(); data = validate_data(data) inside
\* publish_data / publish_data_to_pubsub
Collect ==
    /\ pc = "collect"
    /\ generated < MaxSamples
    /\ generated' = get_env_monitoring_data(generated)
    /\ data' = get_env_monitoring_data(generated)
    /\ trace' = Log(trace, Event("sample", 0))
    /\ pc' = "publish"
    /\ UNCHANGED <<payload, variant, ack, reconnect_count, client, handed, publish_success,
                   fails, intr, intr_at, cause, connack, diag, exit_code>>

\* client.publish(payload) / publisher.publish(...).result(): the sample
\* held is handed to the transport; the call returns ok and forgets it
Publish(ok) ==
    /\ handed' = data
    /\ data' = 0
    /\ publish_success' = ok
    /\ trace' = Log(trace, Event(IF ok THEN "publish_ok" ELSE "publish_fail", 0))

\* what client.publish(...) can end with: result.rc is MQTT_ERR_SUCCESS, it
\* is another code, or the call raised
PublishCodes == {"MQTT_ERR_SUCCESS", "MQTT_ERR_NO_CONN", "raised"}

\* mutant of publish_data_result: result.rc is not looked at
publish_data_result_unchecked(rc) == rc # "raised"

\* what publish_data returns: True unless result.rc is not MQTT_ERR_SUCCESS
\* or an exception was caught.  The call does not wait for the broker's
\* acknowledgement of the QoS-1 message.
publish_data_result(rc) == rc = "MQTT_ERR_SUCCESS"

\* mutant of reset_count: the counter is left as it is
no_reset == reconnect_count

\* the value "reconnect_count = 0" stores
reset_count == 0

\* mutant of BrokerAfterPublish: a False result sends the loop to the
\* backoff sleep
BrokerAfterPublishBackoff(ok) == IF ok THEN "interval_sleep" ELSE "backoff_sleep"

\* where run_continuous of the broker variant goes when publish_data
\* returned ok: a False result is only logged
BrokerAfterPublish(ok) == "interval_sleep"

----------------------------------------------------------------------------
(* Broker variant: run_continuous of mqtt_client.py *)

\* if not client.is_connected():
BrokerLoopTop ==
    /\ variant = "broker" /\ pc = "loop_top"
    /\ pc' = IF is_connected(client) THEN "collect" ELSE "connect"
    /\ UNCHANGED <<payload, variant, ack, reconnect_count, client, generated, data, handed,
                   publish_success, fails, trace, intr, intr_at, cause,
                   connack, diag, exit_code>>

\* client.connect(...) returned; loop_start(); reconnect_count = 0.  The
\* broker's answer rc reaches on_connect, which only logs it.
BrokerConnectReturns ==
    /\ variant = "broker" /\ pc = "connect"
    /\ \E rc \in ConnackCodes :
         /\ connack' = rc
         /\ diag' = on_connect(rc)
         /\ client' = [client EXCEPT !.connected = (rc = 0),
                                     !.loop_running = TRUE]
    /\ reconnect_count' = reset_count
    /\ fails' = 0
    /\ trace' = Log(trace, Event("connect_ok", 0))
    /\ pc' = "collect"
    /\ UNCHANGED <<payload, variant, ack, generated, data, handed, publish_success, intr,
                   intr_at, cause, exit_code>>

\* client.connect(...) raised ConnectionRefusedError or another
\* ConnectionError: the inner handler counts it
BrokerConnectionError ==
    /\ variant = "broker" /\ pc = "connect"
    /\ reconnect_count' = reconnect_count + 1
    /\ fails' = fails + 1
    /\ trace' = Log(trace, Event("connect_fail", 0))
    /\ IF reconnect_count + 1 > max_reconnect_attempts
         THEN /\ cause' = "max_retries"      \* raise, caught by the outer try
              /\ pc' = "fin_stop"
         ELSE /\ cause' = cause
              /\ pc' = "backoff_sleep"
    /\ connack' = -1 /\ diag' = "none"      \* no answer from the broker
    /\ UNCHANGED <<payload, variant, ack, client, generated, data, handed, publish_success,
                   intr, intr_at, exit_code>>

\* client.connect(...) raised an exception that is no ConnectionError
\* (socket.gaierror, socket.timeout, another OSError): only the outer
\* "except Exception" catches it
BrokerConnectOtherError ==
    /\ variant = "broker" /\ pc = "connect"
    /\ trace' = Log(trace, Event("connect_error", 0))
    /\ cause' = "error"
    /\ pc' = "fin_stop"
    /\ connack' = -1 /\ diag' = "none"      \* no answer from the broker
    /\ UNCHANGED <<payload, variant, ack, reconnect_count, client, generated, data, handed,
                   publish_success, fails, intr, intr_at, exit_code>>

\* the sample is built inside publish_data
BrokerCollect == variant = "broker" /\ Collect

\* publish_success = publish_data(client); a False result is only logged
BrokerPublish ==
    /\ variant = "broker" /\ pc = "publish"
    /\ \E rc \in PublishCodes :
         LET ok == publish_data_result(rc)
         IN  /\ Publish(ok)
             /\ ack' = IF rc = "MQTT_ERR_SUCCESS" THEN "pending" ELSE "none"
             /\ fails' = IF ok THEN 0 ELSE fails
             /\ pc' = BrokerAfterPublish(ok)
    /\ UNCHANGED <<payload, variant, reconnect_count, client, generated, intr, intr_at,
                   cause, connack, diag, exit_code>>

\* time.sleep(SAMPLE_INTERVAL)
BrokerIntervalSleep ==
    /\ variant = "broker" /\ pc = "interval_sleep"
    /\ trace' = Log(trace, Event("interval_sleep", SAMPLE_INTERVAL))
    /\ pc' = "loop_top"
    /\ UNCHANGED <<payload, variant, ack, reconnect_count, client, generated, data, handed,
                   publish_success, fails, intr, intr_at, cause, connack,
                   diag, exit_code>>

\* the session drops while the loop sleeps
ConnectionLost ==
    /\ variant = "broker" /\ pc = "interval_sleep"
    /\ client.connected
    /\ client' = [client EXCEPT !.connected = FALSE]
    /\ UNCHANGED <<payload, variant, ack, pc, reconnect_count, generated, data, handed,
                   publish_success, fails, trace, intr, intr_at, cause,
                   connack, diag, exit_code>>

\* the client's network thread re-establishes the session while the loop
\* sleeps
ConnectionRestored ==
    /\ variant = "broker" /\ pc = "interval_sleep"
    /\ client.loop_running /\ ~client.connected
    /\ client' = [client EXCEPT !.connected = TRUE]
    /\ UNCHANGED <<payload, variant, ack, pc, reconnect_count, generated, data, handed,
                   publish_success, fails, trace, intr, intr_at, cause,
                   connack, diag, exit_code>>

\* the broker acknowledges the QoS-1 message while the main thread sleeps
\* (the interval sleep of run_continuous, the two seconds of run_once);
\* on_publish logs it
on_publish ==
    /\ variant = "broker" /\ pc \in {"interval_sleep", "once_wait"}
    /\ ack = "pending" /\ client.loop_running /\ client.connected
    /\ ack' = "confirmed"
    /\ UNCHANGED <<payload, variant, pc, reconnect_count, client, generated, data,
                   handed, publish_success, fails, trace, intr, intr_at,
                   cause, connack, diag, exit_code>>

\* time.sleep(wait_time) of the inner handler
BrokerBackoffSleep ==
    /\ variant = "broker" /\ pc = "backoff_sleep"
    /\ trace' = Log(trace, Event("backoff_sleep", wait_time(reconnect_count)))
    /\ pc' = "h_stop"
    /\ UNCHANGED <<payload, variant, ack, reconnect_count, client, generated, data, handed,
                   publish_success, fails, intr, intr_at, cause, connack,
                   diag, exit_code>>

\* client.loop_stop() of the inner handler
BrokerHandlerStop ==
    /\ variant = "broker" /\ pc = "h_stop"
    /\ client' = loop_stop(client)
    /\ pc' = "h_disconnect"
    /\ UNCHANGED <<payload, variant, ack, reconnect_count, generated, data, handed,
                   publish_success, fails, trace, intr, intr_at, cause,
                   connack, diag, exit_code>>

\* client.disconnect() of the inner handler
BrokerHandlerDisconnect ==
    /\ variant = "broker" /\ pc = "h_disconnect"
    /\ client' = disconnect(client)
    /\ pc' = "h_newclient"
    /\ UNCHANGED <<payload, variant, ack, reconnect_count, generated, data, handed,
                   publish_success, fails, trace, intr, intr_at, cause,
                   connack, diag, exit_code>>

\* client = setup_mqtt_client()
BrokerNewClient ==
    /\ variant = "broker" /\ pc = "h_newclient"
    /\ client' = setup_mqtt_client
    /\ connack' = -1
    /\ diag' = "none"
    /\ pc' = "loop_top"
    /\ UNCHANGED <<payload, variant, ack, reconnect_count, generated, data, handed,
                   publish_success, fails, trace, intr, intr_at, cause,
                   exit_code>>

\* KeyboardInterrupt in the loop, outside the handler's inner try: no inner
\* handler catches it ("except Exception" of publish_data does not either),
\* "except KeyboardInterrupt" of the outer try does
BrokerInterrupt ==
    /\ variant = "broker"
    /\ pc \in {"loop_top", "connect", "collect", "publish", "interval_sleep",
               "backoff_sleep", "h_newclient"}
    /\ intr < MaxInterrupts
    /\ intr' = intr + 1
    /\ intr_at' = pc
    /\ data' = 0
    /\ cause' = "interrupt"
    /\ pc' = "fin_stop"
    /\ UNCHANGED <<payload, variant, ack, reconnect_count, client, generated, handed,
                   publish_success, fails, trace, connack, diag, exit_code>>

\* KeyboardInterrupt inside "try: loop_stop(); disconnect() except: pass"
\* of the inner handler: the bare except catches it, the interrupted call
\* and what follows it in the try are skipped, the loop goes on
BrokerInterruptInHandlerCleanup ==
    /\ variant = "broker"
    /\ pc \in {"h_stop", "h_disconnect"}
    /\ intr < MaxInterrupts
    /\ intr' = intr + 1
    /\ intr_at' = pc
    /\ pc' = "h_newclient"
    /\ UNCHANGED <<payload, variant, ack, reconnect_count, client, generated, data, handed,
                   publish_success, fails, trace, cause, connack, diag,
                   exit_code>>

\* client.loop_stop() of the finally block
BrokerFinallyStop ==
    /\ variant = "broker" /\ pc = "fin_stop"
    /\ client' = loop_stop(client)
    /\ pc' = "fin_disconnect"
    /\ UNCHANGED <<payload, variant, ack, reconnect_count, generated, data, handed,
                   publish_success, fails, trace, intr, intr_at, cause,
                   connack, diag, exit_code>>

\* client.disconnect() of the finally block, then the function returns
BrokerFinallyDisconnect ==
    /\ variant = "broker" /\ pc = "fin_disconnect"
    /\ client' = disconnect(client)
    /\ pc' = "done"
    /\ exit_code' = ExitStatus
    /\ UNCHANGED <<payload, variant, ack, reconnect_count, generated, data, handed,
                   publish_success, fails, trace, intr, intr_at, cause,
                   connack, diag>>

\* KeyboardInterrupt inside "try: loop_stop(); disconnect() except: pass"
\* of the finally block: swallowed, the rest of the try is skipped
BrokerInterruptInFinally ==
    /\ variant = "broker"
    /\ pc \in {"fin_stop", "fin_disconnect"}
    /\ intr < MaxInterrupts
    /\ intr' = intr + 1
    /\ intr_at' = pc
    /\ pc' = "done"
    /\ exit_code' = ExitStatus
    /\ UNCHANGED <<payload, variant, ack, reconnect_count, client, generated, data, handed,
                   publish_success, fails, trace, cause, connack, diag>>

----------------------------------------------------------------------------
(* Cloud variant: run_continuous of pubsub_client.py *)

\* what run_continuous of the cloud variant does with a False result of
\* publish_data_to_pubsub: the counter is incremented.  Over the maximum
\* the "raise Exception" is caught by the inner "except Exception", which
\* increments the counter once more and re-raises to the outer try, whose
\* finally only logs.
CloudFailed ==
    /\ publish_success' = FALSE
    /\ fails' = fails + 1
    /\ IF reconnect_count + 1 > max_reconnect_attempts
         THEN /\ reconnect_count' = reconnect_count + 2
              /\ cause' = "max_retries"
              /\ pc' = "done"
              /\ exit_code' = ExitStatus
         ELSE /\ reconnect_count' = reconnect_count + 1
              /\ cause' = cause
              /\ pc' = "backoff_sleep"
              /\ exit_code' = exit_code

\* publisher = pubsub_v1.PublisherClient(); topic_path = ...
CloudPublisherCreated ==
    /\ variant = "cloud" /\ pc = "make_publisher"
    /\ pc' = "collect"
    /\ UNCHANGED <<payload, variant, ack, reconnect_count, client, generated, data, handed,
                   publish_success, fails, trace, intr, intr_at, cause,
                   connack, diag, exit_code>>

\* PublisherClient() raised (no usable credentials): publish_data_to_pubsub
\* returns False before any sample is built
CloudPublisherError ==
    /\ variant = "cloud" /\ pc = "make_publisher"
    /\ CloudFailed
    /\ trace' = Log(trace, Event("publish_fail", 0))
    /\ UNCHANGED <<payload, variant, ack, client, generated, data, handed, intr, intr_at,
                   connack, diag>>

\* the sample is built inside publish_data_to_pubsub
CloudCollect == variant = "cloud" /\ Collect

\* success = publish_data_to_pubsub() returned True; reconnect_count = 0
CloudPublishOk ==
    /\ variant = "cloud" /\ pc = "publish"
    /\ Publish(TRUE)
    /\ ack' = "confirmed"                   \* future.result() gave the id
    /\ reconnect_count' = reset_count
    /\ fails' = 0
    /\ pc' = "interval_sleep"
    /\ UNCHANGED <<payload, variant, client, generated, intr, intr_at, cause, connack,
                   diag, exit_code>>

\* publish or future.result() raised: publish_data_to_pubsub returns False
CloudPublishFail ==
    /\ variant = "cloud" /\ pc = "publish"
    /\ \E ok \in {FALSE} : Publish(ok) /\ CloudFailed
    /\ ack' = "none"
    /\ UNCHANGED <<payload, variant, client, generated, intr, intr_at, connack, diag>>

\* time.sleep(wait_time); continue
CloudBackoffSleep ==
    /\ variant = "cloud" /\ pc = "backoff_sleep"
    /\ trace' = Log(trace, Event("backoff_sleep", wait_time(reconnect_count)))
    /\ pc' = "make_publisher"
    /\ UNCHANGED <<payload, variant, ack, reconnect_count, client, generated, data, handed,
                   publish_success, fails, intr, intr_at, cause, connack,
                   diag, exit_code>>

\* time.sleep(SAMPLE_INTERVAL)
CloudIntervalSleep ==
    /\ variant = "cloud" /\ pc = "interval_sleep"
    /\ trace' = Log(trace, Event("interval_sleep", SAMPLE_INTERVAL))
    /\ pc' = "make_publisher"
    /\ UNCHANGED <<payload, variant, ack, reconnect_count, client, generated, data, handed,
                   publish_success, fails, intr, intr_at, cause, connack,
                   diag, exit_code>>

\* KeyboardInterrupt anywhere in the loop: no "except Exception" catches it,
\* "except KeyboardInterrupt" of the outer try does; finally only logs
CloudInterrupt ==
    /\ variant = "cloud"
    /\ pc \in {"make_publisher", "collect", "publish", "interval_sleep",
               "backoff_sleep"}
    /\ intr < MaxInterrupts
    /\ intr' = intr + 1
    /\ intr_at' = pc
    /\ data' = 0
    /\ cause' = "interrupt"
    /\ pc' = "done"
    /\ exit_code' = ExitStatus
    /\ UNCHANGED <<payload, variant, ack, reconnect_count, client, generated, handed,
                   publish_success, fails, trace, connack, diag>>

----------------------------------------------------------------------------
Next ==
    \/ BrokerLoopTop
    \/ BrokerConnectReturns
    \/ BrokerConnectionError
    \/ BrokerConnectOtherError
    \/ BrokerCollect
    \/ BrokerPublish
    \/ BrokerIntervalSleep
    \/ ConnectionLost
    \/ ConnectionRestored
    \/ on_publish
    \/ BrokerBackoffSleep
    \/ BrokerHandlerStop
    \/ BrokerHandlerDisconnect
    \/ BrokerNewClient
    \/ BrokerInterrupt
    \/ BrokerInterruptInHandlerCleanup
    \/ BrokerFinallyStop
    \/ BrokerFinallyDisconnect
    \/ BrokerInterruptInFinally
    \/ CloudPublisherCreated
    \/ CloudPublisherError
    \/ CloudCollect
    \/ CloudPublishOk
    \/ CloudPublishFail
    \/ CloudBackoffSleep
    \/ CloudIntervalSleep
    \/ CloudInterrupt

Spec == Init /\ [][Next]_vars

----------------------------------------------------------------------------
(* run_once of both variants (the --test flag) *)

\* run_once is entered; the broker variant has called setup_mqtt_client()
OnceInit ==
    /\ ProgramStart
    /\ pc = IF variant = "broker" THEN "once_connect" ELSE "make_publisher"
    /\ PayloadIdle

\* mutant of OnceAfterPublish: a False result makes run_once try again
OnceRetryPublish(ok) == IF ok THEN "once_wait" ELSE "collect"

\* where run_once of the broker variant goes when publish_data returned ok:
\* the result is logged, then time.sleep(2)
OnceAfterPublish(ok) == "once_wait"

\* the process ends: run_once returned, or a KeyboardInterrupt left it
\* uncaught and the interpreter ends with a non-zero status
OnceExit(why) ==
    /\ pc' = "done"
    /\ IF why = "interrupt"
         THEN \E st \in {1, 130} : exit_code' = st
         ELSE exit_code' = ExitStatus

\* client.connect(...) returned; client.loop_start()
OnceConnectReturns ==
    /\ variant = "broker" /\ pc = "once_connect"
    /\ \E rc \in ConnackCodes :
         /\ connack' = rc
         /\ diag' = on_connect(rc)
         /\ client' = [client EXCEPT !.connected = (rc = 0),
                                     !.loop_running = TRUE]
    /\ trace' = Log(trace, Event("connect_ok", 0))
    /\ pc' = "once_settle"
    /\ UNCHANGED <<payload, variant, ack, reconnect_count, generated, data,
                   handed, publish_success, fails, intr, intr_at, cause,
                   exit_code>>

\* client.connect(...) raised: "except Exception" logs it, the finally
\* block follows; publish_data is not called
OnceConnectError ==
    /\ variant = "broker" /\ pc = "once_connect"
    /\ trace' = Log(trace, Event("connect_error", 0))
    /\ cause' = "error"
    /\ pc' = "once_fin_stop"
    /\ UNCHANGED <<payload, variant, ack, reconnect_count, client, generated,
                   data, handed, publish_success, fails, intr, intr_at,
                   connack, diag, exit_code>>

\* time.sleep(1), "allow time for connection to establish"
OnceSettle ==
    /\ variant = "broker" /\ pc = "once_settle"
    /\ pc' = "collect"
    /\ UNCHANGED <<payload, variant, ack, reconnect_count, client, generated,
                   data, handed, publish_success, fails, trace, intr,
                   intr_at, cause, connack, diag, exit_code>>

\* success = publish_data(client); the result is only logged
OncePublish ==
    /\ variant = "broker" /\ pc = "publish"
    /\ \E rc \in PublishCodes :
         LET ok == publish_data_result(rc)
         IN  /\ Publish(ok)
             /\ ack' = IF rc = "MQTT_ERR_SUCCESS" THEN "pending" ELSE "none"
             /\ pc' = OnceAfterPublish(ok)
    /\ UNCHANGED <<payload, variant, reconnect_count, client, generated,
                   fails, intr, intr_at, cause, connack, diag, exit_code>>

\* time.sleep(2), "wait for message to be delivered"
OnceWait ==
    /\ variant = "broker" /\ pc = "once_wait"
    /\ pc' = "once_fin_stop"
    /\ UNCHANGED <<payload, variant, ack, reconnect_count, client, generated,
                   data, handed, publish_success, fails, trace, intr,
                   intr_at, cause, connack, diag, exit_code>>

\* client.loop_stop() of the finally block
OnceFinallyStop ==
    /\ variant = "broker" /\ pc = "once_fin_stop"
    /\ client' = loop_stop(client)
    /\ pc' = "once_fin_disconnect"
    /\ UNCHANGED <<payload, variant, ack, reconnect_count, generated, data,
                   handed, publish_success, fails, trace, intr, intr_at,
                   cause, connack, diag, exit_code>>

\* client.disconnect() of the finally block; run_once is left
OnceFinallyDisconnect ==
    /\ variant = "broker" /\ pc = "once_fin_disconnect"
    /\ client' = disconnect(client)
    /\ OnceExit(cause)
    /\ UNCHANGED <<payload, variant, ack, reconnect_count, generated, data,
                   handed, publish_success, fails, trace, intr, intr_at,
                   cause, connack, diag>>

\* KeyboardInterrupt in the try block of run_once: "except Exception" does
\* not catch it, the finally block runs, then it leaves run_once
OnceInterrupt ==
    /\ variant = "broker"
    /\ pc \in {"once_connect", "once_settle", "collect", "publish",
               "once_wait"}
    /\ intr < MaxInterrupts
    /\ intr' = intr + 1
    /\ intr_at' = pc
    /\ data' = 0
    /\ cause' = "interrupt"
    /\ pc' = "once_fin_stop"
    /\ UNCHANGED <<payload, variant, ack, reconnect_count, client, generated,
                   handed, publish_success, fails, trace, connack, diag,
                   exit_code>>

\* KeyboardInterrupt inside the finally block of run_once: nothing catches
\* it, the interrupted call and what follows it are skipped
OnceInterruptInFinally ==
    /\ variant = "broker"
    /\ pc \in {"once_fin_stop", "once_fin_disconnect"}
    /\ intr < MaxInterrupts
    /\ intr' = intr + 1
    /\ intr_at' = pc
    /\ cause' = "interrupt"
    /\ OnceExit("interrupt")
    /\ UNCHANGED <<payload, variant, ack, reconnect_count, client, generated,
                   data, handed, publish_success, fails, trace, connack,
                   diag>>

\* PublisherClient() raised inside publish_data_to_pubsub: it returns False
\* before a sample is built, run_once logs the failure and returns
OnceCloudPublisherError ==
    /\ variant = "cloud" /\ pc = "make_publisher"
    /\ publish_success' = FALSE
    /\ trace' = Log(trace, Event("publisher_error", 0))
    /\ cause' = cause
    /\ OnceExit(cause)
    /\ UNCHANGED <<payload, variant, ack, reconnect_count, client, generated,
                   data, handed, fails, intr, intr_at, connack, diag>>

\* success = publish_data_to_pubsub(): publish and future.result() gave the
\* message id, or one of them raised; run_once logs the result and returns
OnceCloudPublish ==
    /\ variant = "cloud" /\ pc = "publish"
    /\ \E ok \in BOOLEAN :
         /\ Publish(ok)
         /\ ack' = IF ok THEN "confirmed" ELSE "none"
    /\ cause' = cause
    /\ OnceExit(cause)
    /\ UNCHANGED <<payload, variant, reconnect_count, client, generated,
                   fails, intr, intr_at, connack, diag>>

\* KeyboardInterrupt in run_once of the cloud variant: nothing catches it
OnceCloudInterrupt ==
    /\ variant = "cloud"
    /\ pc \in {"make_publisher", "collect", "publish"}
    /\ intr < MaxInterrupts
    /\ intr' = intr + 1
    /\ intr_at' = pc
    /\ data' = 0
    /\ cause' = "interrupt"
    /\ OnceExit("interrupt")
    /\ UNCHANGED <<payload, variant, ack, reconnect_count, client, generated,
                   handed, publish_success, fails, trace, connack, diag>>

OnceNext ==
    \/ OnceConnectReturns
    \/ OnceConnectError
    \/ OnceSettle
    \/ BrokerCollect
    \/ OncePublish
    \/ on_publish
    \/ OnceWait
    \/ OnceFinallyStop
    \/ OnceFinallyDisconnect
    \/ OnceInterrupt
    \/ OnceInterruptInFinally
    \/ CloudPublisherCreated
    \/ OnceCloudPublisherError
    \/ CloudCollect
    \/ OnceCloudPublish
    \/ OnceCloudInterrupt

SpecOnce == OnceInit /\ [][OnceNext]_vars

----------------------------------------------------------------------------
(* One collection: get_cpu_temperature, get_system_metrics,                *)
(* get_env_monitoring_data and validate_data.  A Python value is a record  *)
(* with its kind; a sample is a function from its keys to such values.     *)
(* Temperatures are whole degrees.                                         *)

None == [kind |-> "null"]

Number(v) == [kind |-> "number", v |-> v]

Text(s) == [kind |-> "str", s |-> s]

List(items) == [kind |-> "list", items |-> items]

Dict(items) == [kind |-> "dict", items |-> items]

\* stands for a key the caller's sample does not have
Absent == [kind |-> "absent"]

\* the values the temperature command can report
CpuReadings == {-5, -1, 0, 1, 50, 99, 100, 101, 150}

\* what reading the temperature comes to: a value was parsed, the output
\* did not match, or the command raised
CpuOutcomes ==
    {[out |-> "value", v |-> t] : t \in CpuReadings}
        \cup {[out |-> "unparsable", v |-> 0], [out |-> "raised", v |-> 0]}

\* what the psutil calls come to
MetricsOutcomes == {"ok", "raised"}

\* the keys of the mapping get_system_metrics returns when psutil works
MetricKeys == {"cpu_percent", "memory_percent", "disk_percent", "network"}

\* that mapping
FullMetrics ==
    Dict([cpu_percent |-> Number(12), memory_percent |-> Number(40),
          disk_percent |-> Number(71),
          network |-> Dict([bytes_sent |-> Number(1), bytes_recv |-> Number(2)])])

\* the mapping get_system_metrics returns when psutil raised
ErrorMarker == Dict([status |-> Text("error"), message |-> Text("str(e)")])

\* get_cpu_temperature(): a float, or None when the output could not be
\* parsed or the command raised
get_cpu_temperature(o) == IF o.out = "value" THEN Number(o.v) ELSE None

\* mutant of get_system_metrics: a failure of psutil leaves nothing
get_system_metrics_unguarded(o) == IF o = "ok" THEN FullMetrics ELSE None

\* get_system_metrics(): the metric mapping, or the error marker
get_system_metrics(o) == IF o = "ok" THEN FullMetrics ELSE ErrorMarker

\* the mapping get_env_monitoring_data() builds from the two sensor reads
env_monitoring_data(s) ==
    [device_id |-> Text("DEVICE_ID"),
     timestamp |-> Text("datetime.now().isoformat()"),
     cpu_temperature |-> get_cpu_temperature(s.cpu),
     system_metrics |-> get_system_metrics(s.metrics),
     version |-> Text("1.0.0"),
     metadata |-> Dict([sample_interval_seconds |-> Number(SAMPLE_INTERVAL),
                        available_sensors |->
                            List(<<"cpu_temperature", "system_metrics">>)])]

\* d.get(k, default)
get(d, k, default) == IF k \in DOMAIN d THEN d[k] ELSE default

\* d[k] = v
put(d, k, v) == [x \in DOMAIN d \cup {k} |-> IF x = k THEN v ELSE d[x]]

\* mutant of abnormal: the bounds 0 and 100 are out of range too
abnormal_strict(t) == t <= 0 \/ t >= 100

\* cpu_temp < 0 or cpu_temp > 100
abnormal(t) == t < 0 \/ t > 100

\* mutant of add_warning: the warning replaces what was there
add_warning_overwrite(d, w) == put(d, "warnings", List(<<w>>))

\* data["warnings"] = data.get("warnings", []) + [w]
add_warning(d, w) ==
    put(d, "warnings", List(get(d, "warnings", List(<<>>)).items \o <<w>>))

\* validate_data(data)
validate_data(d) ==
    LET cpu_temp == get(d, "cpu_temperature", None)
        d1 == IF cpu_temp # None /\ abnormal(cpu_temp.v)
                THEN add_warning(d, "Abnormal CPU temperature")
                ELSE d
    IN  IF "system_metrics" \notin DOMAIN d1 \/ d1["system_metrics"].kind # "dict"
          THEN add_warning(d1, "Missing system metrics")
          ELSE d1

\* the samples validate_data is tried on: the fields it reads are absent or
\* hold each kind of value, next to the fields it does not read
CpuFields == {Absent, None} \cup {Number(t) : t \in CpuReadings}

MetricsFields ==
    {Absent, None, Text("n/a"), List(<<>>), FullMetrics, ErrorMarker,
     Dict([cpu_percent |-> Number(12)])}

WarningTexts == {"Abnormal CPU temperature", "Missing system metrics", "Low battery"}

WarningFields ==
    {Absent} \cup
    {List(w) : w \in UNION {[1..n -> WarningTexts] : n \in 0..MaxPriorWarnings}}

Sample(c, m, w) ==
    LET keys == {"device_id", "version"}
                  \cup (IF c # Absent THEN {"cpu_temperature"} ELSE {})
                  \cup (IF m # Absent THEN {"system_metrics"} ELSE {})
                  \cup (IF w # Absent THEN {"warnings"} ELSE {})
    IN  [k \in keys |-> CASE k = "cpu_temperature" -> c
                          [] k = "system_metrics" -> m
                          [] k = "warnings" -> w
                          [] k = "device_id" -> Text("DEVICE_ID")
                          [] k = "version" -> Text("1.0.0")]

Samples == {Sample(c, m, w) : c \in CpuFields, m \in MetricsFields, w \in WarningFields}

\* the variables of the program around the collection
program == <<variant, pc, reconnect_count, client, generated, data, handed,
             publish_success, fails, trace, intr, intr_at, cause, connack,
             diag, exit_code, ack>>

\* the inputs: the outcomes of the two sensor reads of a collection about
\* to be built, or a sample handed to validate_data as it is
PayloadInit ==
    /\ ProgramStart
    /\ pc = "collect"
    /\ result = None
    /\ \/ /\ pstep = "sensed"
          /\ sensors \in [cpu : CpuOutcomes, metrics : MetricsOutcomes]
          /\ sample = None
       \/ /\ pstep = "given"
          /\ sensors = [cpu |-> [out |-> "none", v |-> 0], metrics |-> "none"]
          /\ sample \in Samples

\* data = get_env_monitoring_data()
PayloadBuild ==
    /\ pstep = "sensed"
    /\ sample' = env_monitoring_data(sensors)
    /\ pstep' = "built"
    /\ UNCHANGED <<program, sensors, result>>

\* data = validate_data(data)
PayloadValidate ==
    /\ pstep \in {"given", "built"}
    /\ result' = validate_data(sample)
    /\ pstep' = "validated"
    /\ UNCHANGED <<program, sensors, sample>>

PayloadNext == PayloadBuild \/ PayloadValidate

SpecPayload == PayloadInit /\ [][PayloadNext]_vars

----------------------------------------------------------------------------
(* Vocabulary of the properties *)

LastEvent == trace[Len(trace)]

\* a failure the loop counts: a connect that raised a ConnectionError, or,
\* in the cloud variant, a publish call that returned False
CountedFailure(e) ==
    \/ e.ev = "connect_fail"
    \/ variant = "cloud" /\ e.ev = "publish_fail"

Success(e) == e.ev \in {"connect_ok", "publish_ok"}

Leaving == pc \in {"fin_stop", "fin_disconnect", "done"}

\* the events connect can end with
ConnectEvents == {"connect_ok", "connect_fail", "connect_error"}

----------------------------------------------------------------------------
(* C1: the k-th consecutive counted failure, 1 <= k <= 10, is followed by  *)
(* a backoff sleep of exactly 5*k seconds after which the loop goes on;    *)
(* the 11th ends the loop with no backoff sleep after it.                  *)
C1_BackoffSequence ==
    /\ fails <= max_reconnect_attempts + 1
    /\ (trace # <<>> /\ CountedFailure(LastEvent) /\ fails \in 1..10
          /\ cause # "interrupt")
         => pc = "backoff_sleep" /\ cause = "none"
    /\ (trace # <<>> /\ LastEvent.ev = "backoff_sleep")
         => /\ fails \in 1..10
            /\ LastEvent.n = 5 * fails
            /\ cause \in {"none", "interrupt"}
            /\ (cause = "none" => ~Leaving)
    /\ fails = 11
         => /\ Leaving
            /\ cause = "max_retries"
            /\ CountedFailure(LastEvent)

C1_Witness ==
    /\ fails = 11 /\ pc = "done" /\ cause = "max_retries"
    /\ \E i, j \in 1..Len(trace) :
         /\ i < j
         /\ trace[i] = Event("backoff_sleep", 45)
         /\ trace[j] = Event("backoff_sleep", 50)

(* C2: right after a successful connect or a successful publish the retry  *)
(* counter is 0, and the first backoff sleep after a success lasts 5       *)
(* seconds.                                                                *)
C2_ResetOnSuccess ==
    /\ (trace # <<>> /\ Success(LastEvent)) => reconnect_count = 0
    /\ \A j \in 1..Len(trace) :
         (/\ trace[j].ev = "backoff_sleep"
          /\ \E i \in 1..(j - 1) :
               /\ Success(trace[i])
               /\ \A k \in (i + 1)..(j - 1) : trace[k].ev # "backoff_sleep")
         => trace[j].n = 5

C2_Witness ==
    \E i, k, j \in 1..Len(trace) :
        /\ i < k /\ k < j
        /\ trace[i] = Event("backoff_sleep", 15)
        /\ Success(trace[k])
        /\ trace[j] = Event("backoff_sleep", 5)
        /\ reconnect_count = 1

(* C3: in the broker variant a publish_data that returned False leaves the *)
(* retry counter and the client as they are, ends nothing, and is followed *)
(* by the sampling-interval sleep and by no backoff sleep.                 *)
C3_BrokerPublishFailureTolerated ==
    /\ [][(/\ variant = "broker" /\ pc = "publish" /\ pc' # "publish"
           /\ intr' = intr /\ ~publish_success')
          => /\ reconnect_count' = reconnect_count
             /\ client' = client
             /\ cause' = "none"
             /\ pc' = "interval_sleep"]_vars
    /\ [](variant = "broker" =>
            /\ \A i \in 1..(Len(trace) - 1) :
                 trace[i].ev = "publish_fail" => trace[i + 1].ev = "interval_sleep"
            /\ (trace # <<>> /\ LastEvent.ev = "publish_fail")
                 => cause \in {"none", "interrupt"})

C3_Witness ==
    /\ variant = "broker" /\ pc = "interval_sleep" /\ client.connected
    /\ ~publish_success
    /\ Len(trace) >= 4
    /\ LastEvent.ev = "publish_fail"
    /\ trace[Len(trace) - 2].ev = "interval_sleep"
    /\ trace[Len(trace) - 3].ev = "publish_fail"

(* C4: in the broker variant a failed connect is followed by the backoff   *)
(* sleep and the next connect, with no sample and no publish in between; a *)
(* connect that returned is followed by the sample and its publish with no *)
(* sleep in between; with the connects failing three times from a counter  *)
(* of 0 and then succeeding the events are exactly connect-fail, sleep 5,  *)
(* connect-fail, sleep 10, connect-fail, sleep 15, connect-ok, sample,     *)
(* publish.                                                                *)
C4_Expected ==
    << Event("connect_fail", 0), Event("backoff_sleep", 5),
       Event("connect_fail", 0), Event("backoff_sleep", 10),
       Event("connect_fail", 0), Event("backoff_sleep", 15),
       Event("connect_ok", 0), Event("sample", 0), Event("publish_ok", 0) >>

C4_Match(j, e) ==
    IF j = Len(C4_Expected)
      THEN e.ev \in {"publish_ok", "publish_fail"} /\ e.n = 0
      ELSE e = C4_Expected[j]

\* position i of the history holds a connect attempted with the counter at 0
C4_FirstAttempt(i) ==
    \/ i = 1 /\ Len(trace) < TraceLen
    \/ i > 1 /\ trace[i - 1].ev # "backoff_sleep"

C4_ConnectFailureOrder ==
    variant = "broker" =>
      /\ \A i \in 1..Len(trace) :
           /\ (trace[i].ev = "connect_fail" /\ i < Len(trace))
                => trace[i + 1].ev = "backoff_sleep"
           /\ (trace[i].ev = "connect_fail" /\ i + 1 < Len(trace))
                => trace[i + 2].ev \in ConnectEvents
           /\ (trace[i].ev = "connect_ok" /\ i < Len(trace))
                => trace[i + 1].ev = "sample"
           /\ (trace[i].ev = "connect_ok" /\ i + 1 < Len(trace))
                => trace[i + 2].ev \in {"publish_ok", "publish_fail"}
      /\ \A i \in 1..Len(trace) :
           (trace[i].ev \in ConnectEvents /\ C4_FirstAttempt(i)) =>
             LET s == SubSeq(trace, i, Len(trace))
             IN  \A j \in 1..Len(s) :
                   (j <= Len(C4_Expected) /\ \A k \in 1..(j - 1) : C4_Match(k, s[k]))
                     => \/ C4_Match(j, s[j])
                        \/ /\ C4_Expected[j].ev \in ConnectEvents
                           /\ s[j].ev \in ConnectEvents

C4_Witness ==
    /\ variant = "broker"
    /\ Len(trace) >= Len(C4_Expected)
    /\ C4_FirstAttempt(Len(trace) - Len(C4_Expected) + 1)
    /\ \A j \in 1..Len(C4_Expected) :
         C4_Match(j, trace[Len(trace) - Len(C4_Expected) + j])

(* C5: the process ends with exit code 0 after an operator interrupt and   *)
(* with a non-zero exit code after the retry counter exceeded the maximum. *)
C5_ExitCodes ==
    pc = "done" =>
      /\ cause = "interrupt" => exit_code = 0
      /\ cause = "max_retries" => exit_code # 0

(* C6: in the broker variant an interrupt delivered during the interval    *)
(* sleep or a backoff sleep ends the loop: disconnect is called exactly    *)
(* once on the current client, and no connect, sample, publish or sleep    *)
(* follows the interrupt.                                                  *)
C6_InterruptDuringSleep ==
    /\ [](variant = "broker" /\ intr_at \in {"interval_sleep", "backoff_sleep"}
            => /\ Leaving
               /\ cause = "interrupt"
               /\ client.disconnects = IF pc = "done" THEN 1 ELSE 0)
    /\ [][(variant = "broker" /\ intr_at \in {"interval_sleep", "backoff_sleep"})
            => /\ trace' = trace
               /\ generated' = generated /\ handed' = handed
               /\ reconnect_count' = reconnect_count]_vars

C6_Witness ==
    /\ variant = "broker" /\ pc = "done" /\ exit_code = 0
    /\ intr_at = "interval_sleep"
    /\ handed >= 1
    /\ client.disconnects = 1

C6_WitnessBackoff ==
    /\ variant = "broker" /\ pc = "done"
    /\ intr_at = "backoff_sleep"
    /\ client.disconnects = 1

(* C7: an interrupt delivered at any point of the loop ends the loop.      *)
C7_InterruptNeverSwallowed == intr > 0 => Leaving

(* C8: run_continuous leaves its loop only through an operator interrupt   *)
(* or through the retry counter exceeding 10.                              *)
C8_OnlyTwoExits ==
    Leaving =>
      \/ cause = "interrupt"
      \/ cause = "max_retries" /\ reconnect_count > max_reconnect_attempts

(* C9: in the broker variant a connect the broker answers with return code *)
(* 1..5 increments the retry counter and sends the loop to the backoff     *)
(* sleep or, over the maximum, out of the loop.                            *)
C9_RefusedConnectCounted ==
    [][(/\ variant = "broker" /\ pc = "connect" /\ pc' # "connect"
        /\ intr' = intr /\ connack' \in 1..5)
       => /\ reconnect_count' = reconnect_count + 1
          /\ pc' \in {"backoff_sleep", "fin_stop"}]_vars

(* C10: every publish hands over the sample built last, which was never    *)
(* handed over before: samples are published in the order they were built, *)
(* each at most once, also after a failed publish or a failed connect.     *)
C10_FreshSampleEachPublish ==
    /\ [](handed <= generated /\ data \in {0, generated})
    /\ [][(pc = "publish" /\ pc' # "publish" /\ intr' = intr)
            => handed' = generated /\ handed' > handed]_vars
    /\ [][generated' # generated
            => pc = "collect" /\ generated' = generated + 1 /\ data' = generated']_vars

C10_Witness ==
    /\ handed >= 3
    /\ LastEvent.ev = "publish_ok"
    /\ \E i, j \in 1..Len(trace) :
         i < j /\ trace[i].ev = "publish_fail" /\ trace[j].ev \in ConnectEvents

(* C17: in the broker variant an iteration attempts connect if and only if *)
(* the client reports not connected at its start; an iteration that starts *)
(* with a connected client goes to the sample and its publish with no      *)
(* connect.                                                                *)
C17_ConnectOnlyWhenDisconnected ==
    /\ [][(variant = "broker" /\ pc = "loop_top" /\ pc' # "loop_top" /\ intr' = intr)
            => /\ client.connected => pc' = "collect"
               /\ ~client.connected => pc' = "connect"
               /\ trace' = trace /\ client' = client]_vars
    /\ [][(variant = "broker" /\ pc' = "connect" /\ pc # "connect")
            => pc = "loop_top" /\ ~client.connected]_vars
    /\ [](variant = "broker" =>
            \A i \in 1..(Len(trace) - 1) :
              trace[i].ev = "interval_sleep"
                => trace[i + 1].ev \in ConnectEvents \cup {"sample"})

C17_Witness ==
    /\ variant = "broker" /\ pc = "publish" /\ client.connected
    /\ Len(trace) >= 2
    /\ LastEvent.ev = "sample"
    /\ trace[Len(trace) - 1].ev = "interval_sleep"

(* C18: the retry counter stays within 0..11, and within 1..10 whenever a  *)
(* backoff sleep is executed.                                              *)
C18_CounterRange ==
    /\ reconnect_count \in 0..(max_reconnect_attempts + 1)
    /\ pc = "backoff_sleep" => reconnect_count \in 1..max_reconnect_attempts

(* C19: in the broker variant loop_stop and disconnect have both been      *)
(* called on the old client when the loop creates the new one, and         *)
(* disconnect has been called on the current client when the process ends. *)
C19_NoClientAbandoned ==
    variant = "broker" =>
      /\ pc = "h_newclient" => client.stops >= 1 /\ client.disconnects >= 1
      /\ pc = "done" => client.disconnects >= 1

(* C11: publish_data / publish_data_to_pubsub returns True only when the   *)
(* backend has confirmed the message, never while its acknowledgement is   *)
(* pending.                                                                *)
C11_TrueMeansConfirmed ==
    [][(pc = "publish" /\ pc' # "publish" /\ intr' = intr /\ publish_success')
         => ack' = "confirmed"]_vars

(* C11 as amended: True is returned only for a message the transport took: *)
(* in the cloud variant after the message identifier was received, in the  *)
(* broker variant when client.publish reported MQTT_ERR_SUCCESS, with the  *)
(* acknowledgement of the QoS-1 message still pending.                     *)
C11_TrueMeansAccepted ==
    [][(pc = "publish" /\ pc' # "publish" /\ intr' = intr /\ publish_success')
         => \/ variant = "cloud" /\ ack' = "confirmed"
            \/ variant = "broker" /\ ack' = "pending"]_vars

C11_Witness ==
    /\ variant = "broker" /\ pc = "interval_sleep"
    /\ publish_success /\ ack = "pending"
    /\ LastEvent.ev = "publish_ok"

\* the publish attempts the history shows
PublishAttempts ==
    Cardinality({i \in 1..Len(trace) : trace[i].ev \in {"publish_ok", "publish_fail"}})

\* run_once could not set its transport up: connect raised, or the
\* publisher client could not be created
OnceSetupFailed ==
    \E i \in 1..Len(trace) : trace[i].ev \in {"connect_error", "publisher_error"}

(* C12 as stated: a run of run_once that no interrupt disturbs ends with    *)
(* exactly one sample collected and exactly one publish attempt made,       *)
(* whatever connect and publish came to, and in the broker variant with     *)
(* disconnect called.                                                       *)
C12_ExactlyOneWhatever ==
    (pc = "done" /\ intr = 0) =>
        /\ generated = 1
        /\ PublishAttempts = 1
        /\ variant = "broker" => client.disconnects >= 1

(* C12, amended: run_once never collects more than one sample and never     *)
(* makes more than one publish attempt, and none without a sample.  A run   *)
(* that no interrupt disturbs ends with exactly one sample and one attempt  *)
(* when the transport was set up (connect returned, the publisher client    *)
(* was created) and with none of either when it was not.  The broker        *)
(* variant has called loop_stop and disconnect once each when it exits,     *)
(* unless an interrupt arrived inside the finally block.                    *)
C12_OnceAtMostOne ==
    /\ generated <= 1
    /\ PublishAttempts <= generated
    /\ (pc = "done" /\ intr = 0) =>
          IF OnceSetupFailed
            THEN generated = 0 /\ PublishAttempts = 0
            ELSE generated = 1 /\ PublishAttempts = 1
    /\ (pc = "done" /\ variant = "broker"
          /\ intr_at \notin {"once_fin_stop", "once_fin_disconnect"}) =>
          client.stops = 1 /\ client.disconnects = 1

C12_Witness ==
    /\ variant = "broker" /\ pc = "done" /\ intr = 0
    /\ OnceSetupFailed
    /\ generated = 0 /\ PublishAttempts = 0
    /\ client.disconnects = 1

\* the warnings a sample carries, none when it has no such key
Warnings(d) == get(d, "warnings", List(<<>>)).items

\* how often the warning w occurs in the sequence q
Count(q, w) == Cardinality({i \in 1..Len(q) : q[i] = w})

\* how many entries w the call of validate_data added
Added(w) == Count(Warnings(result), w) - Count(Warnings(sample), w)

\* the value is the full cpu/memory/disk/network mapping
WellFormedMetrics(m) == m.kind = "dict" /\ DOMAIN m.items = MetricKeys

(* C13: validate_data adds "Abnormal CPU temperature" exactly once when the *)
(* sample's cpu_temperature is a number below 0 or above 100, and not at    *)
(* all when it is within 0..100, bounds included, or when it is absent or   *)
(* null.  A sample with 150, valid metrics and no prior warnings comes back *)
(* with exactly that one warning.                                           *)
C13_AbnormalTemperature ==
    pstep = "validated" =>
        LET cpu == get(sample, "cpu_temperature", None)
            w == "Abnormal CPU temperature"
        IN  /\ (cpu # None /\ (cpu.v < 0 \/ cpu.v > 100)) =>
                   /\ Added(w) = 1
                   /\ Len(Warnings(result)) > Len(Warnings(sample))
                   /\ Warnings(result)[Len(Warnings(sample)) + 1] = w
            /\ (cpu # None /\ cpu.v >= 0 /\ cpu.v <= 100) => Added(w) = 0
            /\ cpu = None => Added(w) = 0
            /\ (/\ cpu = Number(150)
                /\ "system_metrics" \in DOMAIN sample
                /\ WellFormedMetrics(sample["system_metrics"])
                /\ Warnings(sample) = <<>>) => Warnings(result) = <<w>>

C13_Witness ==
    /\ pstep = "validated"
    /\ "cpu_temperature" \in DOMAIN sample
    /\ sample["cpu_temperature"] = Number(150)
    /\ "warnings" \notin DOMAIN sample
    /\ Warnings(result) = <<"Abnormal CPU temperature">>

(* C14: validate_data adds "Missing system metrics" when the sample's       *)
(* system_metrics is absent or is not the full metric mapping (another      *)
(* kind of value, the error marker, a partial mapping), and does not add it *)
(* for the full metric mapping.                                             *)
C14_MalformedMetricsFlagged ==
    pstep = "validated" =>
        IF "system_metrics" \in DOMAIN sample
              /\ WellFormedMetrics(sample["system_metrics"])
          THEN Added("Missing system metrics") = 0
          ELSE Added("Missing system metrics") = 1

(* C15: the warnings validate_data returns begin with the warnings it was   *)
(* given, and every other field of the sample comes back as it was.         *)
C15_Additive ==
    pstep = "validated" =>
        /\ Len(Warnings(result)) >= Len(Warnings(sample))
        /\ SubSeq(Warnings(result), 1, Len(Warnings(sample))) = Warnings(sample)
        /\ DOMAIN result \ {"warnings"} = DOMAIN sample \ {"warnings"}
        /\ \A k \in DOMAIN sample \ {"warnings"} : result[k] = sample[k]
        /\ "warnings" \in DOMAIN sample => "warnings" \in DOMAIN result

C15_Witness ==
    /\ pstep = "validated"
    /\ Len(Warnings(sample)) = 2
    /\ Len(Warnings(result)) = 4
    /\ SubSeq(Warnings(result), 1, 2) = Warnings(sample)

(* C16: whatever the two sensor reads come to, get_env_monitoring_data      *)
(* returns a mapping with device_id, timestamp, cpu_temperature,            *)
(* system_metrics, version "1.0.0" and metadata, where cpu_temperature is a *)
(* number or null and system_metrics is the full metric mapping or the      *)
(* error marker.                                                            *)
C16_AllFieldsAlways ==
    pstep = "built" =>
        /\ DOMAIN sample = {"device_id", "timestamp", "cpu_temperature",
                            "system_metrics", "version", "metadata"}
        /\ sample["version"] = Text("1.0.0")
        /\ sample["cpu_temperature"].kind \in {"number", "null"}
        /\ sample["cpu_temperature"].kind = "number" <=> sensors.cpu.out = "value"
        /\ \/ WellFormedMetrics(sample["system_metrics"])
           \/ /\ sample["system_metrics"].kind = "dict"
              /\ DOMAIN sample["system_metrics"].items = {"status", "message"}
              /\ sample["system_metrics"].items.status = Text("error")

C16_Witness ==
    /\ pstep = "built"
    /\ sensors.cpu.out = "raised" /\ sensors.metrics = "raised"
    /\ sample["cpu_temperature"] = None
    /\ sample["system_metrics"] = ErrorMarker

TypeOK ==
    /\ variant \in {"broker", "cloud"}
    /\ pc \in {"loop_top", "connect", "make_publisher", "collect", "publish",
               "interval_sleep", "backoff_sleep", "h_stop", "h_disconnect",
               "h_newclient", "fin_stop", "fin_disconnect", "done"}
    /\ reconnect_count \in 0..(max_reconnect_attempts + 2)
    /\ client.connected \in BOOLEAN /\ client.loop_running \in BOOLEAN
    /\ client.stops \in 0..2 /\ client.disconnects \in 0..2
    /\ generated \in 0..MaxSamples /\ handed \in 0..generated
    /\ data \in 0..generated
    /\ publish_success \in BOOLEAN
    /\ fails \in 0..(max_reconnect_attempts + 1)
    /\ Len(trace) <= TraceLen
    /\ intr \in 0..MaxInterrupts
    /\ cause \in {"none", "interrupt", "max_retries", "error"}
    /\ connack \in -1..5
    /\ diag \in {"none", "info", "error"}
    /\ exit_code \in {-1, 0}
    /\ ack \in {"none", "pending", "confirmed"}

====
